---- MODULE Spec2Model ----
(***************************************************************************)
(* Catalog state reconciliation of SMART-MARKET (src/App.tsx).             *)
(*                                                                         *)
(* The App component keeps the product list `products` consistent with a   *)
(* remote `products` table through three paths: the snapshot load          *)
(* fetchProducts, the realtime postgres_changes handler and the optimistic *)
(* delete handleDeleteProduct.  The remote table, its change feed and the  *)
(* network are the environment: requests are answered at some later step,  *)
(* in any order; change events reach the client in the order the table     *)
(* emitted them.  The channel's lifecycle (error, rejoin, removal at       *)
(* unmount) and the search filter of the dashboard are modelled as well,   *)
(* and so are the session (view and user, the entry forms), the publish    *)
(* form of the seller dashboard (image uploads, the insert) and the image  *)
(* carousel of ProductCard, each with a specification of its own.  The     *)
(* catalog specifications follow a seller's session restored from          *)
(* localStorage; SpecAuth starts from the default initial state.           *)
(***************************************************************************)
EXTENDS Integers, Sequences, FiniteSets, TLC

VARIABLES
    store,         \* rows of the remote products table
    nextId,        \* next primary key the table assigns
    nEvents,       \* changes of the table since the channel was created (bounded)
    channel,       \* realtime channel: "none" before mount, then "joined",
                   \* "errored" after CHANNEL_ERROR, "removed" by removeChannel
    events,        \* change events emitted and not yet received, oldest first
    dups,          \* events received a second time so far (bounded)
    products,      \* useState<Product[]>([])
    lastEv,        \* history: the event the handler applied last, if nothing else
                   \* has written products since (NoEvent otherwise)
    loading,       \* useState(false)
    fetchError,    \* useState<string | null>(null)
    loads,         \* fetchProducts calls whose await has not resumed
    nLoads,        \* fetchProducts calls made so far
    newestOk,      \* history: the latest fetchProducts call that has completed with data
    deletes,       \* handleDeleteProduct calls whose await has not resumed
    nDeletes,      \* handleDeleteProduct calls made so far
    notification,  \* useState<{message, type} | null>(null), by its type
    mounted,       \* the App component: "no" before its mount effect has run,
                   \* "yes" while mounted, "gone" after the effect's cleanup
    searchTerm,    \* useState('')
    received,      \* history: the events the handler has applied since the
                   \* last other write to products, oldest first
    base,          \* history: products as that last other write left it
    view,          \* useState<ViewState>: localStorage 'sm_view', or 'AUTH'
    user,          \* useState<User>: localStorage 'sm_user', or unauthenticated
    authError,     \* useState<string | null>(null)
    loginEmail,    \* useState: the email field of the login form
    loginPassword, \* useState: the password field of the login form
    buyerUsername, \* useState(''): the username field of the buyer setup form
    adminKeyInput, \* useState(''): the key field of the seller form
    sellerUsername,\* useState(''): the username field of the seller form
    newProduct,    \* useState({ name: '', price: '', description: '', images: [] })
    uploading,     \* useState(false)
    uploads,       \* handleImageUpload calls whose conversions have not finished
    nUploads,      \* handleImageUpload calls that went past the limit check
    publishes,     \* handlePublishProduct calls whose await has not resumed
    nPublishes,    \* handlePublishProduct calls that sent an insert
    cardIndex      \* useState(0) of each rendered ProductCard, by product id

envVars    == <<store, nextId, nEvents, channel, events, dups>>
viewVars   == <<products, lastEv, loading, fetchError>>
asyncVars  == <<loads, nLoads, newestOk, deletes, nDeletes>>
toastVars  == <<notification>>
histVars   == <<received, base>>
uiVars     == <<mounted, searchTerm>>
authVars   == <<view, user, authError, loginEmail, loginPassword, buyerUsername,
                adminKeyInput, sellerUsername>>
formVars   == <<newProduct, uploading, uploads, nUploads, publishes, nPublishes>>
appVars    == <<authVars, formVars>>
vars       == <<envVars, viewVars, asyncVars, toastVars, histVars, uiVars, appVars,
                cardIndex>>

----------------------------------------------------------------------------
(* Bounds of the model *)

MaxId      == 2   \* rows ever inserted into the table
MaxTime    == 2   \* distinct created_at values
MaxEvents  == 2   \* changes of the table after the channel is created
MaxLoads   == 3   \* fetchProducts calls
MaxDeletes == 1   \* handleDeleteProduct calls
MaxDup     == 1   \* duplicate deliveries of a change event
MaxStr     == 2   \* characters of a name, a description, a search term
MaxShown   == 2   \* entries of the list the search filter is applied to
MaxFiles   == 2   \* files of one selection of the file input
MaxUploads == 2   \* handleImageUpload calls that start conversions
MaxPublishes == 2 \* handlePublishProduct calls that send an insert

Ids   == 1..MaxId
Times == 1..MaxTime

----------------------------------------------------------------------------
(* Records *)

Null == "null"

\* The images column as it arrives from the table: null/absent, a scalar
\* string, or an array.  val holds the scalar (one element) or the array.
NullImages      == [kind |-> "null",   val |-> <<>>]
ScalarImage(s)  == [kind |-> "string", val |-> <<s>>]
ArrayImages(a)  == [kind |-> "array",  val |-> a]

\* the values of the images column the table is given
RawImages == { ScalarImage("a"), ArrayImages(<<"b", "c">>) }

\* a row without the images key (p.images is undefined)
AbsentImages == [kind |-> "absent", val |-> <<>>]

\* every shape of the images column: null, absent, the empty string, a
\* string, and arrays of zero, one and two elements
AllRawImages ==
    { NullImages, AbsentImages, ScalarImage(""), ScalarImage("a"),
      ArrayImages(<<>>), ArrayImages(<<"a">>), ArrayImages(<<"b", "c">>) }

\* mutant: Array.isArray(p.images) ? p.images : []
NormalizeImages_DropsScalar(raw) ==
    IF raw.kind = "array" THEN raw.val ELSE <<>>

\* Array.isArray(p.images) ? p.images : (p.images ? [p.images] : [])
NormalizeImages(raw) ==
    IF raw.kind = "array" THEN raw.val
    ELSE IF raw.kind = "string" /\ raw.val[1] # "" THEN <<raw.val[1]>>
    ELSE <<>>

\* { ...p, images: <normalized> }
Sanitize(p) == [p EXCEPT !.images = NormalizeImages(p.images)]

\* the seller whose session the catalog specifications follow
DefaultSeller == <<"a">>

\* a row of the table (Product): the id, created_at and the images column,
\* and the name, description and seller_username the model does not vary
Row(i, t, raw) ==
    [id |-> i, created_at |-> t, images |-> raw, name |-> <<"a">>,
     description |-> <<"b">>, seller_username |-> DefaultSeller]

StoreIds == { r.id : r \in store }
RowOf(i) == CHOOSE r \in store : r.id = i

\* ids of the entries of a product list, as a set
IdSet(ps) == { ps[k].id : k \in 1..Len(ps) }

----------------------------------------------------------------------------
(* Search: searchTerm and filteredProducts *)

\* strings are sequences of characters
Letters == {"a", "A", "b"}

Strings == UNION { [1..n -> Letters] : n \in 0..MaxStr }

\* String.prototype.toLowerCase, on Letters
LowerCase(c) == IF c = "A" THEN "a" ELSE c

ToLowerCase(s) == [k \in 1..Len(s) |-> LowerCase(s[k])]

\* String.prototype.includes: q occurs in s at some offset
Includes(s, q) ==
    \E o \in 0..(Len(s) - Len(q)) : SubSeq(s, o + 1, o + Len(q)) = q

\* an entry of products with the two fields the filter reads
Card(i, n, d) ==
    [id |-> i, created_at |-> 1, images |-> <<>>, name |-> n, description |-> d]

\* mutant: the filter looks at the name only
FilteredProducts_NameOnly ==
    LET Matches(p) == Includes(ToLowerCase(p.name), ToLowerCase(searchTerm))
    IN  SelectSeq(products, Matches)

\* products.filter(p => p.name.toLowerCase().includes(searchTerm.toLowerCase())
\*                   || p.description.toLowerCase().includes(searchTerm.toLowerCase()))
\* the predicate of the filter
Matches(p) ==
    \/ Includes(ToLowerCase(p.name), ToLowerCase(searchTerm))
    \/ Includes(ToLowerCase(p.description), ToLowerCase(searchTerm))

FilteredProducts == SelectSeq(products, Matches)

\* the two views that fall through to the dashboard markup
Dashboards == {"BUYER_DASHBOARD", "SELLER_DASHBOARD"}

\* the ids of the product cards on screen: a dashboard renders a ProductCard
\* for every entry of filteredProducts while loading is false
RenderedIds ==
    IF mounted = "yes" /\ view \in Dashboards /\ ~loading
    THEN { products[k].id : k \in { j \in 1..Len(products) : Matches(products[j]) } }
    ELSE {}

\* a render after a state change: a card that stays on screen keeps its state
\* (key={product.id}), a card that appears starts with useState(0).  The
\* domain of cardIndex is the set of cards that were on screen.
Rerender ==
    cardIndex' = [i \in RenderedIds' |->
                    IF i \in DOMAIN cardIndex THEN cardIndex[i] ELSE 0]

\* onChange={(e) => setSearchTerm(e.target.value)}
SetSearchTerm(q) ==
    /\ mounted = "yes"
    /\ view \in Dashboards
    /\ q # searchTerm
    /\ searchTerm' = q
    /\ UNCHANGED <<envVars, viewVars, asyncVars, toastVars, histVars, mounted, appVars>>
    /\ Rerender

----------------------------------------------------------------------------
(* RemoteStore: the products table, its query and its change feed *)

EmptyRow == Row(0, 0, NullImages)

\* payload of a postgres_changes event: eventType, old (its id, 0 if none), new
InsertEvent(r) == [type |-> "INSERT", old_id |-> 0,    new |-> r]
UpdateEvent(r) == [type |-> "UPDATE", old_id |-> r.id, new |-> r]
DeleteEvent(i) == [type |-> "DELETE", old_id |-> i,    new |-> EmptyRow]
NoEvent        == [type |-> "NONE",   old_id |-> 0,    new |-> EmptyRow]

\* the table publishes a change to the channel only while it is joined
Emit(ev) == IF channel = "joined" THEN Append(events, ev) ELSE events
Emitted  == IF channel # "none" THEN nEvents + 1 ELSE nEvents
CanEmit  == channel # "none" => nEvents < MaxEvents

\* .select('*').order('created_at', { ascending: false }): every ordering of
\* the rows that is descending in created_at (ties in any order)
Snapshots(rows) ==
    LET n == Cardinality(rows)
    IN  { s \in [1..n -> rows] :
            /\ \A i, j \in 1..n : i # j => s[i] # s[j]
            /\ \A i \in 1..n : \A j \in 1..n :
                   i < j => s[i].created_at >= s[j].created_at }

\* insert: the table assigns the id (uuid primary key); created_at and images
\* are what the publishing client sent
StoreInsert(t, raw) ==
    /\ nextId <= MaxId
    /\ CanEmit
    /\ store' = store \cup { Row(nextId, t, raw) }
    /\ nextId' = nextId + 1
    /\ events' = Emit(InsertEvent(Row(nextId, t, raw)))
    /\ nEvents' = Emitted
    /\ UNCHANGED <<channel, dups, viewVars, asyncVars, toastVars, histVars, uiVars, appVars, cardIndex>>

\* the sellers that publish
Sellers == { DefaultSeller, <<"b">> }

\* insert by the session of seller who (seller_username: user.username)
StoreInsertBy(who, t, raw) ==
    LET r == [Row(nextId, t, raw) EXCEPT !.seller_username = who]
    IN  /\ nextId <= MaxId
        /\ CanEmit
        /\ store' = store \cup { r }
        /\ nextId' = nextId + 1
        /\ events' = Emit(InsertEvent(r))
        /\ nEvents' = Emitted
        /\ UNCHANGED <<channel, dups, viewVars, asyncVars, toastVars, histVars, uiVars,
                       appVars, cardIndex>>

\* a row is changed in the table (same id, same created_at)
StoreUpdate(i, raw) ==
    /\ CanEmit
    /\ i \in StoreIds
    /\ raw # RowOf(i).images
    /\ LET r == Row(i, RowOf(i).created_at, raw)
       IN  /\ store' = (store \ { RowOf(i) }) \cup { r }
           /\ events' = Emit(UpdateEvent(r))
    /\ nEvents' = Emitted
    /\ UNCHANGED <<nextId, channel, dups, viewVars, asyncVars, toastVars,
                   histVars, uiVars, appVars, cardIndex>>

\* a row is removed by someone else (another session of the seller, SQL)
StoreDelete(i) ==
    /\ CanEmit
    /\ i \in StoreIds
    /\ store' = store \ { RowOf(i) }
    /\ events' = Emit(DeleteEvent(i))
    /\ nEvents' = Emitted
    /\ UNCHANGED <<nextId, channel, dups, viewVars, asyncVars, toastVars,
                   histVars, uiVars, appVars, cardIndex>>

----------------------------------------------------------------------------
(* fetchProducts *)

ErrMsg == "Failed to fetch"

Load(g, ph, d, c, t) == [gen |-> g, phase |-> ph, data |-> d, cause |-> c, target |-> t]

\* the synchronous head of fetchProducts, up to its await: the new in-flight call
NewLoad(c, t) == Load(nLoads + 1, "sent", <<>>, c, t)

\* safeData = data.map(p => ({ ...p, images: ... }))
SafeData(data) == [k \in 1..Len(data) |-> Sanitize(data[k])]

\* the table answers the query of an in-flight fetchProducts: the rows it
\* holds now, or an error
ServerQuery(l) ==
    /\ l \in loads
    /\ l.phase = "sent"
    /\ \/ \E s \in Snapshots(store) :
            loads' = (loads \ {l}) \cup { [l EXCEPT !.phase = "data", !.data = s] }
       \/ loads' = (loads \ {l}) \cup { [l EXCEPT !.phase = "error"] }
    /\ UNCHANGED <<envVars, viewVars, nLoads, newestOk, deletes, nDeletes, toastVars,
                   histVars, uiVars, appVars, cardIndex>>

\* mutant: a failed load also empties the list
FetchComplete_ClearsOnError(l) ==
    /\ mounted = "yes"
    /\ l \in loads
    /\ l.phase # "sent"
    /\ IF l.phase = "data"
       THEN /\ products' = SafeData(l.data)
            /\ lastEv' = NoEvent
            /\ newestOk' = IF l.gen > newestOk THEN l.gen ELSE newestOk
            /\ received' = <<>>
            /\ base' = SafeData(l.data)
            /\ UNCHANGED fetchError
       ELSE /\ fetchError' = ErrMsg
            /\ products' = <<>>
            /\ lastEv' = NoEvent
            /\ received' = <<>>
            /\ base' = <<>>
            /\ UNCHANGED newestOk
    /\ loading' = FALSE
    /\ loads' = loads \ {l}
    /\ UNCHANGED <<envVars, nLoads, deletes, nDeletes, toastVars, uiVars, appVars>>
    /\ Rerender

\* mutant: a failed load is retried at once (while the bound allows)
FetchComplete_Retries(l) ==
    /\ mounted = "yes"
    /\ l \in loads
    /\ l.phase # "sent"
    /\ IF l.phase = "data"
       THEN /\ products' = SafeData(l.data)
            /\ lastEv' = NoEvent
            /\ newestOk' = IF l.gen > newestOk THEN l.gen ELSE newestOk
            /\ received' = <<>>
            /\ base' = SafeData(l.data)
            /\ loading' = FALSE
            /\ loads' = loads \ {l}
            /\ UNCHANGED <<fetchError, nLoads>>
       ELSE IF nLoads < MaxLoads
       THEN /\ fetchError' = Null
            /\ loading' = TRUE
            /\ loads' = (loads \ {l}) \cup { NewLoad("retry", 0) }
            /\ nLoads' = nLoads + 1
            /\ UNCHANGED <<products, lastEv, newestOk, histVars>>
       ELSE /\ fetchError' = ErrMsg
            /\ loading' = FALSE
            /\ loads' = loads \ {l}
            /\ UNCHANGED <<products, lastEv, newestOk, histVars, nLoads>>
    /\ UNCHANGED <<envVars, deletes, nDeletes, toastVars, uiVars, appVars>>
    /\ Rerender

\* the await of fetchProducts resumes with { data, error }
FetchComplete(l) ==
    /\ mounted = "yes"
    /\ l \in loads
    /\ l.phase # "sent"
    /\ IF l.phase = "data"
       THEN /\ products' = SafeData(l.data)
            /\ lastEv' = NoEvent
            /\ newestOk' = IF l.gen > newestOk THEN l.gen ELSE newestOk
            /\ received' = <<>>
            /\ base' = SafeData(l.data)
            /\ UNCHANGED fetchError
       ELSE /\ fetchError' = ErrMsg
            /\ UNCHANGED <<products, lastEv, newestOk, histVars>>
    /\ loading' = FALSE
    /\ loads' = loads \ {l}
    /\ UNCHANGED <<envVars, nLoads, deletes, nDeletes, toastVars, uiVars, appVars>>
    /\ Rerender

\* useEffect on mount: fetchProducts() and the channel subscription
Mount ==
    /\ mounted = "no"
    /\ mounted' = "yes"
    /\ channel = "none"
    /\ channel' = "joined"
    /\ loading' = TRUE
    /\ fetchError' = Null
    /\ loads' = loads \cup { NewLoad("mount", 0) }
    /\ nLoads' = nLoads + 1
    /\ UNCHANGED <<store, nextId, nEvents, events, dups, products, lastEv,
                   newestOk, deletes, nDeletes, toastVars, histVars, searchTerm, appVars>>
    /\ Rerender

\* the Retry button of the error banner, rendered while fetchError is set
HandleRetry ==
    /\ mounted = "yes"
    /\ view \in Dashboards
    /\ fetchError # Null
    /\ nLoads < MaxLoads
    /\ loading' = TRUE
    /\ fetchError' = Null
    /\ loads' = loads \cup { NewLoad("retry", 0) }
    /\ nLoads' = nLoads + 1
    /\ UNCHANGED <<envVars, products, lastEv, newestOk, deletes, nDeletes, toastVars,
                   histVars, uiVars, appVars>>
    /\ Rerender

----------------------------------------------------------------------------
(* postgres_changes handler of the realtime channel *)

\* prev.filter(p => p.id !== id)
WithoutId(prev, i) ==
    LET Keep(p) == p.id # i IN SelectSeq(prev, Keep)

\* mutant: the new record is put where created_at (newest first) places it
ApplyInsert_ByCreatedAt(prev, newP) ==
    LET Newer(p) == p.created_at > newP.created_at
        NotNewer(p) == ~Newer(p)
    IN  SelectSeq(prev, Newer) \o <<Sanitize(newP)>> \o SelectSeq(prev, NotNewer)

\* setProducts(prev => [newP, ...prev])
ApplyInsert(prev, newP) == <<Sanitize(newP)>> \o prev

\* mutant: removal by position, prev.splice(prev.findIndex(...), 1), which
\* takes out the last entry when no entry has the id
ApplyDelete_Splice(prev, old_id) ==
    IF old_id = 0 \/ prev = <<>> THEN prev
    ELSE IF old_id \in IdSet(prev)
         THEN LET k == CHOOSE j \in 1..Len(prev) :
                          /\ prev[j].id = old_id
                          /\ \A m \in 1..(j - 1) : prev[m].id # old_id
              IN  SubSeq(prev, 1, k - 1) \o SubSeq(prev, k + 1, Len(prev))
         ELSE SubSeq(prev, 1, Len(prev) - 1)

\* if (payload.old && payload.old.id) setProducts(prev => prev.filter(...))
ApplyDelete(prev, old_id) ==
    IF old_id # 0 THEN WithoutId(prev, old_id) ELSE prev

\* mutant: an upsert, which adds the record when no entry has its id
ApplyUpdate_Upsert(prev, updatedP) ==
    IF updatedP.id \in IdSet(prev)
    THEN [k \in 1..Len(prev) |->
            IF prev[k].id = updatedP.id THEN Sanitize(updatedP) ELSE prev[k]]
    ELSE <<Sanitize(updatedP)>> \o prev

\* setProducts(prev => prev.map(p => p.id === updatedP.id ? updatedP : p))
ApplyUpdate(prev, updatedP) ==
    [k \in 1..Len(prev) |->
        IF prev[k].id = updatedP.id THEN Sanitize(updatedP) ELSE prev[k]]

\* the handler, by payload.eventType
ApplyEvent(prev, ev) ==
    IF ev.type = "INSERT" THEN ApplyInsert(prev, ev.new)
    ELSE IF ev.type = "DELETE" THEN ApplyDelete(prev, ev.old_id)
    ELSE IF ev.type = "UPDATE" THEN ApplyUpdate(prev, ev.new)
    ELSE prev

\* mutant: an event that arrives while a load is outstanding is dropped
DeliverEvent_DropsWhileLoading ==
    /\ channel = "joined"
    /\ events # <<>>
    /\ products' = IF loading THEN products ELSE ApplyEvent(products, Head(events))
    /\ lastEv' = Head(events)
    /\ events' = Tail(events)
    /\ received' = Append(received, Head(events))
    /\ UNCHANGED <<store, nextId, nEvents, channel, dups, loading, fetchError,
                   asyncVars, toastVars, base, uiVars, appVars>>
    /\ Rerender

\* the oldest undelivered event reaches the handler
DeliverEvent ==
    /\ channel = "joined"
    /\ events # <<>>
    /\ products' = ApplyEvent(products, Head(events))
    /\ lastEv' = Head(events)
    /\ events' = Tail(events)
    /\ received' = Append(received, Head(events))
    /\ UNCHANGED <<store, nextId, nEvents, channel, dups, loading, fetchError,
                   asyncVars, toastVars, base, uiVars, appVars>>
    /\ Rerender

\* at-least-once delivery: the oldest undelivered event reaches the handler
\* and stays queued, to be delivered again
RedeliverEvent ==
    /\ channel = "joined"
    /\ events # <<>>
    /\ dups < MaxDup
    /\ products' = ApplyEvent(products, Head(events))
    /\ lastEv' = Head(events)
    /\ dups' = dups + 1
    /\ received' = Append(received, Head(events))
    /\ UNCHANGED <<store, nextId, nEvents, channel, events, loading, fetchError,
                   asyncVars, toastVars, base, uiVars, appVars>>
    /\ Rerender

\* mutant: a channel error is shown as a load failure
SubscriptionError_SetsFetchError ==
    /\ channel = "joined"
    /\ channel' = "errored"
    /\ fetchError' = ErrMsg
    /\ UNCHANGED <<store, nextId, nEvents, events, dups, products, lastEv, loading,
                   asyncVars, toastVars, histVars, uiVars, appVars, cardIndex>>

\* .subscribe((status, err) => { if (status === 'CHANNEL_ERROR') console.log(...) }):
\* the channel reports an error; the callback only logs.  The table does not
\* publish to the channel until it has joined again.
SubscriptionError ==
    /\ channel = "joined"
    /\ channel' = "errored"
    /\ UNCHANGED <<store, nextId, nEvents, events, dups, viewVars, asyncVars,
                   toastVars, histVars, uiVars, appVars, cardIndex>>

\* the realtime client joins the channel again after an error
ChannelRejoin ==
    /\ channel = "errored"
    /\ channel' = "joined"
    /\ UNCHANGED <<store, nextId, nEvents, events, dups, viewVars, asyncVars,
                   toastVars, histVars, uiVars, appVars, cardIndex>>

\* mutant: the cleanup of the mount effect leaves the channel subscribed
Unmount_KeepsChannel ==
    /\ mounted = "yes"
    /\ mounted' = "gone"
    /\ UNCHANGED <<envVars, viewVars, asyncVars, toastVars, histVars, searchTerm, appVars>>
    /\ Rerender

\* the component unmounts: the cleanup of the mount effect,
\* supabase.removeChannel(channel).  No event reaches the handler any more.
\* The requests still pending are answered, but their awaits resume on a
\* component whose state is gone (FetchComplete, DeleteSucceeded and
\* DeleteFailed need the component mounted).
Unmount ==
    /\ mounted = "yes"
    /\ mounted' = "gone"
    /\ channel' = "removed"
    /\ events' = <<>>
    /\ UNCHANGED <<store, nextId, nEvents, dups, viewVars, asyncVars,
                   toastVars, histVars, searchTerm, appVars>>
    /\ Rerender

----------------------------------------------------------------------------
(* handleDeleteProduct and showNotification *)

Del(k, i, ph) == [n |-> k, id |-> i, phase |-> ph]

\* handleDeleteProduct(id), confirm() accepted, up to its await: the
\* optimistic removal, then the delete request
DeleteCall(i) ==
    /\ products' = WithoutId(products, i)
    /\ lastEv' = NoEvent
    /\ received' = <<>>
    /\ base' = WithoutId(products, i)
    /\ deletes' = deletes \cup { Del(nDeletes + 1, i, "sent") }
    /\ nDeletes' = nDeletes + 1
    /\ UNCHANGED <<envVars, loading, fetchError, loads, nLoads, newestOk, toastVars,
                   uiVars, appVars>>
    /\ Rerender

\* mutant: every card of the seller dashboard shows the Remove button
IsOwner_AnySeller(p) == view = "SELLER_DASHBOARD"

\* ProductCard: isOwner = isSellerView && currentUser === product.seller_username
IsOwner(p) == view = "SELLER_DASHBOARD" /\ user.username = p.seller_username

\* a card of product id i is on screen with its Remove button:
\* isSellerView ? (isOwner && onDelete ? <button ...> : null) : <Buy Now>
CanRemove(i) ==
    /\ i \in RenderedIds
    /\ \E k \in 1..Len(FilteredProducts) :
          FilteredProducts[k].id = i /\ IsOwner(FilteredProducts[k])

\* mutant: the removal waits for the table's answer (no optimistic update)
HandleDeleteProduct_NotOptimistic(i) ==
    /\ CanRemove(i)
    /\ nDeletes < MaxDeletes
    /\ deletes' = deletes \cup { Del(nDeletes + 1, i, "sent") }
    /\ nDeletes' = nDeletes + 1
    /\ UNCHANGED <<envVars, viewVars, loads, nLoads, newestOk, toastVars,
                   histVars, uiVars, appVars, cardIndex>>

\* the Remove button of a rendered card: onDelete(product.id)
HandleDeleteProduct(i) ==
    /\ CanRemove(i)
    /\ nDeletes < MaxDeletes
    /\ DeleteCall(i)

\* the Remove button of a rendered card whose id has a delete request
\* pending (the entry is back in products): the handler runs once more
RepeatDelete(i) ==
    /\ CanRemove(i)
    /\ \E d \in deletes : d.id = i
    /\ nDeletes < MaxDeletes + 1
    /\ DeleteCall(i)

\* handleDeleteProduct called with an id that no entry of products has: an
\* id the table has assigned, the list being rendered (not loading)
StaleDelete(i) ==
    /\ mounted = "yes"
    /\ ~loading
    /\ i < nextId
    /\ i \notin IdSet(products)
    /\ nDeletes < MaxDeletes
    /\ DeleteCall(i)

\* the table executes .delete().eq('id', id): the row is removed (no error
\* when it is already gone), or the request fails and the table is unchanged
ServerDelete(d) ==
    /\ d \in deletes
    /\ d.phase = "sent"
    /\ \/ /\ d.id \in StoreIds => CanEmit
          /\ deletes' = (deletes \ {d}) \cup { [d EXCEPT !.phase = "ok"] }
          /\ store' = { r \in store : r.id # d.id }
          /\ events' = IF d.id \in StoreIds THEN Emit(DeleteEvent(d.id)) ELSE events
          /\ nEvents' = IF d.id \in StoreIds THEN Emitted ELSE nEvents
       \/ /\ deletes' = (deletes \ {d}) \cup { [d EXCEPT !.phase = "error"] }
          /\ UNCHANGED <<store, events, nEvents>>
    /\ UNCHANGED <<nextId, channel, dups, viewVars, loads, nLoads, newestOk,
                   nDeletes, toastVars, histVars, uiVars, appVars, cardIndex>>

\* the await of handleDeleteProduct resumes without error
DeleteSucceeded(d) ==
    /\ mounted = "yes"
    /\ d \in deletes
    /\ d.phase = "ok"
    /\ deletes' = deletes \ {d}
    /\ notification' = "success"
    /\ UNCHANGED <<envVars, viewVars, loads, nLoads, newestOk, nDeletes,
                   histVars, uiVars, appVars, cardIndex>>

\* mutant: the catch branch reports the failure and does not reload
DeleteFailed_NoReload(d) ==
    /\ mounted = "yes"
    /\ d \in deletes
    /\ d.phase = "error"
    /\ nLoads < MaxLoads
    /\ deletes' = deletes \ {d}
    /\ notification' = "error"
    /\ UNCHANGED <<envVars, viewVars, loads, nLoads, newestOk, nDeletes,
                   histVars, uiVars, appVars, cardIndex>>

\* the await of handleDeleteProduct resumes with an error: the catch branch
DeleteFailed(d) ==
    /\ mounted = "yes"
    /\ d \in deletes
    /\ d.phase = "error"
    /\ nLoads < MaxLoads
    /\ deletes' = deletes \ {d}
    /\ notification' = "error"
    /\ loading' = TRUE
    /\ fetchError' = Null
    /\ loads' = loads \cup { NewLoad("rollback", d.id) }
    /\ nLoads' = nLoads + 1
    /\ UNCHANGED <<envVars, products, lastEv, newestOk, nDeletes, histVars, uiVars, appVars>>
    /\ Rerender

\* setTimeout(() => setNotification(null), 3000) fires.  Every showNotification
\* arms its own timer, so one is pending whenever a notification is shown; a
\* timer that fires when none is shown changes nothing.
NotificationTimeout ==
    /\ notification # Null
    /\ notification' = Null
    /\ UNCHANGED <<envVars, viewVars, asyncVars, histVars, uiVars, appVars, cardIndex>>

----------------------------------------------------------------------------
(* ProductCard: the image carousel *)

\* const images = Array.isArray(product.images) ? product.images : [], for
\* the card of product id i (the entries of products hold arrays)
CardImages(i) ==
    LET k == CHOOSE j \in 1..Len(FilteredProducts) : FilteredProducts[j].id = i
    IN  FilteredProducts[k].images

\* the right arrow of the card of product id i, rendered while the card has
\* more than one image:
\* if (images.length > 1) setCurrentImageIndex(prev => (prev + 1) % images.length)
NextImage(i) ==
    /\ i \in RenderedIds
    /\ Len(CardImages(i)) > 1
    /\ cardIndex' = [cardIndex EXCEPT ![i] = (@ + 1) % Len(CardImages(i))]
    /\ UNCHANGED <<envVars, viewVars, asyncVars, toastVars, histVars, uiVars, appVars>>

\* the left arrow:
\* if (images.length > 1) setCurrentImageIndex(prev => (prev - 1 + images.length) % images.length)
PrevImage(i) ==
    /\ i \in RenderedIds
    /\ Len(CardImages(i)) > 1
    /\ cardIndex' = [cardIndex EXCEPT
                        ![i] = (@ - 1 + Len(CardImages(i))) % Len(CardImages(i))]
    /\ UNCHANGED <<envVars, viewVars, asyncVars, toastVars, histVars, uiVars, appVars>>

----------------------------------------------------------------------------
(* Session: view, user and the forms of the entry views *)

\* a field a JavaScript object does not have
Undefined == "undefined"

\* User: email, username?, role?, isAuthenticated
User(e, n, r, a) == [email |-> e, username |-> n, role |-> r, isAuthenticated |-> a]

\* { email: '', isAuthenticated: false }
NoUser == User(<<>>, Undefined, Undefined, FALSE)

\* String.prototype.trim, for the space character
RECURSIVE TrimStart(_)
TrimStart(s) == IF s # <<>> /\ Head(s) = " " THEN TrimStart(Tail(s)) ELSE s

RECURSIVE TrimEnd(_)
TrimEnd(s) ==
    IF s # <<>> /\ s[Len(s)] = " " THEN TrimEnd(SubSeq(s, 1, Len(s) - 1)) ELSE s

Trim(s) == TrimEnd(TrimStart(s))

\* the key the seller form asks for (an opaque string)
ADMIN_KEY == <<"k">>

\* what is typed into the fields of the forms
Emails    == { <<>>, <<"e">> }
Passwords == { <<>>, <<"p">> }
Usernames == { <<>>, <<" ">>, <<"a">>, <<"b", " ">> }
Keys      == { <<>>, ADMIN_KEY, <<"x">> }

\* onChange={(e) => setLoginEmail(e.target.value)}
SetLoginEmail(v) ==
    /\ mounted = "yes"
    /\ view = "AUTH"
    /\ v # loginEmail
    /\ loginEmail' = v
    /\ UNCHANGED <<envVars, viewVars, asyncVars, toastVars, histVars, uiVars,
                   view, user, authError, loginPassword, buyerUsername,
                   adminKeyInput, sellerUsername, formVars, cardIndex>>

\* onChange={(e) => setLoginPassword(e.target.value)}
SetLoginPassword(v) ==
    /\ mounted = "yes"
    /\ view = "AUTH"
    /\ v # loginPassword
    /\ loginPassword' = v
    /\ UNCHANGED <<envVars, viewVars, asyncVars, toastVars, histVars, uiVars,
                   view, user, authError, loginEmail, buyerUsername,
                   adminKeyInput, sellerUsername, formVars, cardIndex>>

\* onChange={(e) => setBuyerUsername(e.target.value)}
SetBuyerUsername(v) ==
    /\ mounted = "yes"
    /\ view = "BUYER_SETUP"
    /\ v # buyerUsername
    /\ buyerUsername' = v
    /\ UNCHANGED <<envVars, viewVars, asyncVars, toastVars, histVars, uiVars,
                   view, user, authError, loginEmail, loginPassword,
                   adminKeyInput, sellerUsername, formVars, cardIndex>>

\* onChange={(e) => setAdminKeyInput(e.target.value)}
SetAdminKeyInput(v) ==
    /\ mounted = "yes"
    /\ view = "SELLER_AUTH"
    /\ v # adminKeyInput
    /\ adminKeyInput' = v
    /\ UNCHANGED <<envVars, viewVars, asyncVars, toastVars, histVars, uiVars,
                   view, user, authError, loginEmail, loginPassword,
                   buyerUsername, sellerUsername, formVars, cardIndex>>

\* onChange={(e) => setSellerUsername(e.target.value)}
SetSellerUsername(v) ==
    /\ mounted = "yes"
    /\ view = "SELLER_AUTH"
    /\ v # sellerUsername
    /\ sellerUsername' = v
    /\ UNCHANGED <<envVars, viewVars, asyncVars, toastVars, histVars, uiVars,
                   view, user, authError, loginEmail, loginPassword,
                   buyerUsername, adminKeyInput, formVars, cardIndex>>

\* the login form is submitted: if (loginEmail && loginPassword) { ... }
HandleLogin ==
    /\ mounted = "yes"
    /\ view = "AUTH"
    /\ loginEmail # <<>>
    /\ loginPassword # <<>>
    /\ user' = User(loginEmail, Undefined, Undefined, TRUE)
    /\ view' = "ROLE_SELECT"
    /\ UNCHANGED <<envVars, viewVars, asyncVars, toastVars, histVars, uiVars,
                   authError, loginEmail, loginPassword, buyerUsername,
                   adminKeyInput, sellerUsername, formVars, cardIndex>>

\* the two buttons of the role selection
HandleRoleSelect(role) ==
    /\ mounted = "yes"
    /\ view = "ROLE_SELECT"
    /\ view' = IF role = "BUYER" THEN "BUYER_SETUP" ELSE "SELLER_AUTH"
    /\ UNCHANGED <<envVars, viewVars, asyncVars, toastVars, histVars, uiVars,
                   user, authError, loginEmail, loginPassword, buyerUsername,
                   adminKeyInput, sellerUsername, formVars, cardIndex>>

\* the buyer setup form is submitted: if (buyerUsername.trim()) { ... }
HandleBuyerSetup ==
    /\ mounted = "yes"
    /\ view = "BUYER_SETUP"
    /\ Trim(buyerUsername) # <<>>
    /\ user' = [user EXCEPT !.username = buyerUsername, !.role = "BUYER"]
    /\ view' = "BUYER_DASHBOARD"
    /\ UNCHANGED <<envVars, viewVars, asyncVars, toastVars, histVars, uiVars,
                   authError, loginEmail, loginPassword, buyerUsername,
                   adminKeyInput, sellerUsername, formVars>>
    /\ Rerender

\* mutant: the seller form checks the key only
HandleSellerAuth_KeyOnly ==
    /\ mounted = "yes"
    /\ view = "SELLER_AUTH"
    /\ IF adminKeyInput = ADMIN_KEY
       THEN /\ user' = [user EXCEPT !.username = sellerUsername, !.role = "SELLER"]
            /\ view' = "SELLER_DASHBOARD"
            /\ authError' = Null
       ELSE /\ authError' = "Invalid Admin Key"
            /\ UNCHANGED <<view, user>>
    /\ UNCHANGED <<envVars, viewVars, asyncVars, toastVars, histVars, uiVars,
                   loginEmail, loginPassword, buyerUsername,
                   adminKeyInput, sellerUsername, formVars>>
    /\ Rerender

\* the seller form is submitted:
\* if (adminKeyInput === ADMIN_KEY && sellerUsername.trim()) { ... } else { ... }
HandleSellerAuth ==
    /\ mounted = "yes"
    /\ view = "SELLER_AUTH"
    /\ IF adminKeyInput = ADMIN_KEY /\ Trim(sellerUsername) # <<>>
       THEN /\ user' = [user EXCEPT !.username = sellerUsername, !.role = "SELLER"]
            /\ view' = "SELLER_DASHBOARD"
            /\ authError' = Null
       ELSE /\ authError' = "Invalid Admin Key"
            /\ UNCHANGED <<view, user>>
    /\ UNCHANGED <<envVars, viewVars, asyncVars, toastVars, histVars, uiVars,
                   loginEmail, loginPassword, buyerUsername,
                   adminKeyInput, sellerUsername, formVars>>
    /\ Rerender

\* the Back button of the buyer setup and of the seller form:
\* onClick={() => setView('ROLE_SELECT')}
Back ==
    /\ mounted = "yes"
    /\ view \in {"BUYER_SETUP", "SELLER_AUTH"}
    /\ view' = "ROLE_SELECT"
    /\ UNCHANGED <<envVars, viewVars, asyncVars, toastVars, histVars, uiVars,
                   user, authError, loginEmail, loginPassword, buyerUsername,
                   adminKeyInput, sellerUsername, formVars, cardIndex>>

\* mutant: logging out keeps the user record
HandleLogout_KeepsUser ==
    /\ mounted = "yes"
    /\ view \in {"ROLE_SELECT"} \cup Dashboards
    /\ view' = "AUTH"
    /\ buyerUsername' = <<>>
    /\ sellerUsername' = <<>>
    /\ adminKeyInput' = <<>>
    /\ authError' = Null
    /\ UNCHANGED <<envVars, viewVars, asyncVars, toastVars, histVars, uiVars,
                   user, loginEmail, loginPassword, formVars>>
    /\ Rerender

\* the logout buttons of the role selection and of the dashboards
HandleLogout ==
    /\ mounted = "yes"
    /\ view \in {"ROLE_SELECT"} \cup Dashboards
    /\ user' = NoUser
    /\ view' = "AUTH"
    /\ buyerUsername' = <<>>
    /\ sellerUsername' = <<>>
    /\ adminKeyInput' = <<>>
    /\ authError' = Null
    /\ UNCHANGED <<envVars, viewVars, asyncVars, toastVars, histVars, uiVars,
                   loginEmail, loginPassword, formVars>>
    /\ Rerender

----------------------------------------------------------------------------
(* The publish form of the seller dashboard *)

\* newProduct: name, price, description, images
Form(n, pr, d, imgs) == [name |-> n, price |-> pr, description |-> d, images |-> imgs]

\* { name: '', price: '', description: '', images: [] }
EmptyForm == Form(<<>>, <<>>, <<>>, <<>>)

\* the limit of handleImageUpload and of the file input's rendering
MaxImages == 3

\* {isSeller && !fetchError && ( <form onSubmit={handlePublishProduct}> ... )}
FormShown == mounted = "yes" /\ view = "SELLER_DASHBOARD" /\ fetchError = Null

\* what is typed into the text fields of the form
FormTexts == { <<>>, <<"a">> }

\* onChange={(e) => setNewProduct({...newProduct, name: e.target.value})},
\* and the same for price and description
EditForm(field, v) ==
    /\ FormShown
    /\ v # newProduct[field]
    /\ newProduct' = [newProduct EXCEPT ![field] = v]
    /\ UNCHANGED <<envVars, viewVars, asyncVars, toastVars, histVars, uiVars,
                   authVars, uploading, uploads, nUploads, publishes, nPublishes,
                   cardIndex>>

\* the files of one selection: an image ("a") or a file of another type
Files == { "a", "x" }

IsImage(f) == f # "x"

FileLists == UNION { [1..n -> Files] : n \in 1..MaxFiles }

Upload(k, fs) == [n |-> k, files |-> fs]

\* the file input (rendered while newProduct.images.length < 3) changes:
\* handleImageUpload up to its first await.  Over the limit it alerts and
\* returns; otherwise the conversions of the files start.
HandleImageUpload(fs) ==
    /\ FormShown
    /\ Len(newProduct.images) < MaxImages
    /\ nUploads < MaxUploads
    /\ IF Len(newProduct.images) + Len(fs) > MaxImages
       THEN UNCHANGED <<uploads, nUploads>>
       ELSE /\ uploads' = uploads \cup { Upload(nUploads + 1, fs) }
            /\ nUploads' = nUploads + 1
    /\ UNCHANGED <<envVars, viewVars, asyncVars, toastVars, histVars, uiVars,
                   authVars, newProduct, uploading, publishes, nPublishes, cardIndex>>

\* the files of fs at the positions ok, in their order
RECURSIVE Converted(_, _)
Converted(fs, ok) ==
    IF fs = <<>> THEN <<>>
    ELSE Converted(SubSeq(fs, 1, Len(fs) - 1), ok)
             \o (IF Len(fs) \in ok THEN <<fs[Len(fs)]>> ELSE <<>>)

\* the loop of handleImageUpload has finished: the files that are not images
\* were skipped, the conversions at the positions ok succeeded, the others
\* threw; setNewProduct(prev => ({ ...prev, images: [...prev.images, ...newImages] }))
UploadDone(u, ok) ==
    /\ mounted = "yes"
    /\ u \in uploads
    /\ \A k \in ok : IsImage(u.files[k])
    /\ newProduct' = [newProduct EXCEPT !.images = @ \o Converted(u.files, ok)]
    /\ uploads' = uploads \ {u}
    /\ UNCHANGED <<envVars, viewVars, asyncVars, toastVars, histVars, uiVars,
                   authVars, uploading, nUploads, publishes, nPublishes, cardIndex>>

\* prev.images.filter((_, i) => i !== index), index counted from 1 here
WithoutIndex(imgs, index) ==
    SubSeq(imgs, 1, index - 1) \o SubSeq(imgs, index + 1, Len(imgs))

\* the remove button of the preview at position index
RemoveImage(index) ==
    /\ FormShown
    /\ index \in 1..Len(newProduct.images)
    /\ newProduct' = [newProduct EXCEPT !.images = WithoutIndex(@, index)]
    /\ UNCHANGED <<envVars, viewVars, asyncVars, toastVars, histVars, uiVars,
                   authVars, uploading, uploads, nUploads, publishes, nPublishes,
                   cardIndex>>

Publish(k, ph, f, who, t) ==
    [n |-> k, phase |-> ph, form |-> f, seller |-> who, created_at |-> t]

\* the form is submitted (its text fields are required, its submit button is
\* disabled while uploading): handlePublishProduct up to its await.  Without
\* images it alerts and returns; otherwise setUploading(true) and the insert
\* of the form as rendered, with created_at the client's time t.
HandlePublishProduct(t) ==
    /\ FormShown
    /\ ~uploading
    /\ newProduct.name # <<>> /\ newProduct.price # <<>> /\ newProduct.description # <<>>
    /\ nPublishes < MaxPublishes
    /\ IF Len(newProduct.images) = 0
       THEN UNCHANGED <<uploading, publishes, nPublishes>>
       ELSE /\ uploading' = TRUE
            /\ publishes' = publishes \cup
                   { Publish(nPublishes + 1, "sent", newProduct, user.username, t) }
            /\ nPublishes' = nPublishes + 1
    /\ UNCHANGED <<envVars, viewVars, asyncVars, toastVars, histVars, uiVars,
                   authVars, newProduct, uploads, nUploads, cardIndex>>

\* the row a publish request asks the table to insert
PublishedRow(p) ==
    [Row(nextId, p.created_at, ArrayImages(p.form.images)) EXCEPT
        !.name = p.form.name, !.description = p.form.description,
        !.seller_username = p.seller]

\* the table executes the insert of a publish request (the row gets its id
\* and the change is published to the channel), or the request fails
ServerPublish(p) ==
    /\ p \in publishes
    /\ p.phase = "sent"
    /\ \/ /\ nextId <= MaxId
          /\ CanEmit
          /\ publishes' = (publishes \ {p}) \cup { [p EXCEPT !.phase = "ok"] }
          /\ store' = store \cup { PublishedRow(p) }
          /\ nextId' = nextId + 1
          /\ events' = Emit(InsertEvent(PublishedRow(p)))
          /\ nEvents' = Emitted
       \/ /\ publishes' = (publishes \ {p}) \cup { [p EXCEPT !.phase = "error"] }
          /\ UNCHANGED <<store, nextId, events, nEvents>>
    /\ UNCHANGED <<channel, dups, viewVars, asyncVars, toastVars, histVars, uiVars,
                   authVars, newProduct, uploading, uploads, nUploads, nPublishes,
                   cardIndex>>

\* mutant: the published product is put into the list at once
PublishSucceeded_AddsProduct(p) ==
    /\ mounted = "yes"
    /\ p \in publishes
    /\ p.phase = "ok"
    /\ publishes' = publishes \ {p}
    /\ newProduct' = EmptyForm
    /\ notification' = "success"
    /\ uploading' = FALSE
    /\ products' = <<Sanitize(PublishedRow(p))>> \o products
    /\ UNCHANGED <<envVars, lastEv, loading, fetchError, asyncVars, histVars, uiVars,
                   authVars, uploads, nUploads, nPublishes>>
    /\ Rerender

\* mutant: the form is kept after a successful publish
PublishSucceeded_KeepsForm(p) ==
    /\ mounted = "yes"
    /\ p \in publishes
    /\ p.phase = "ok"
    /\ publishes' = publishes \ {p}
    /\ notification' = "success"
    /\ uploading' = FALSE
    /\ UNCHANGED <<envVars, viewVars, asyncVars, histVars, uiVars,
                   authVars, newProduct, uploads, nUploads, nPublishes, cardIndex>>

\* the await of handlePublishProduct resumes without error: the form is
\* reset, the success notification is shown, finally setUploading(false)
PublishSucceeded(p) ==
    /\ mounted = "yes"
    /\ p \in publishes
    /\ p.phase = "ok"
    /\ publishes' = publishes \ {p}
    /\ newProduct' = EmptyForm
    /\ notification' = "success"
    /\ uploading' = FALSE
    /\ UNCHANGED <<envVars, viewVars, asyncVars, histVars, uiVars,
                   authVars, uploads, nUploads, nPublishes, cardIndex>>

\* the await of handlePublishProduct resumes with an error: the catch branch
\* shows the error notification, finally setUploading(false)
PublishFailed(p) ==
    /\ mounted = "yes"
    /\ p \in publishes
    /\ p.phase = "error"
    /\ publishes' = publishes \ {p}
    /\ notification' = "error"
    /\ uploading' = FALSE
    /\ UNCHANGED <<envVars, viewVars, asyncVars, histVars, uiVars,
                   authVars, newProduct, uploads, nUploads, nPublishes, cardIndex>>

----------------------------------------------------------------------------
(* Specifications *)

\* the state of the component after construction, but for the session
InitData ==
    /\ store = {}
    /\ nextId = 1
    /\ nEvents = 0
    /\ channel = "none"
    /\ events = <<>>
    /\ dups = 0
    /\ products = <<>>
    /\ lastEv = NoEvent
    /\ loading = FALSE
    /\ fetchError = Null
    /\ loads = {}
    /\ nLoads = 0
    /\ newestOk = 0
    /\ deletes = {}
    /\ nDeletes = 0
    /\ notification = Null
    /\ mounted = "no"
    /\ searchTerm = <<>>
    /\ received = <<>>
    /\ base = <<>>
    /\ authError = Null
    /\ loginEmail = <<>>
    /\ loginPassword = <<>>
    /\ buyerUsername = <<>>
    /\ adminKeyInput = <<>>
    /\ sellerUsername = <<>>
    /\ newProduct = EmptyForm
    /\ uploading = FALSE
    /\ uploads = {}
    /\ nUploads = 0
    /\ publishes = {}
    /\ nPublishes = 0
    /\ cardIndex = <<>>

\* a seller's session restored from localStorage (sm_view, sm_user): the
\* seller dashboard of DefaultSeller
Init ==
    /\ InitData
    /\ view = "SELLER_DASHBOARD"
    /\ user = User(<<"e">>, DefaultSeller, "SELLER", TRUE)

\* the default initial state: nothing in localStorage
InitAuth ==
    /\ InitData
    /\ view = "AUTH"
    /\ user = NoUser

Next ==
    \/ \E t \in Times, raw \in RawImages : StoreInsert(t, raw)
    \/ \E i \in Ids, raw \in RawImages : StoreUpdate(i, raw)
    \/ \E i \in Ids : StoreDelete(i)
    \/ Mount
    \/ HandleRetry
    \/ \E l \in loads : ServerQuery(l)
    \/ \E l \in loads : FetchComplete(l)
    \/ DeliverEvent
    \/ \E i \in Ids : HandleDeleteProduct(i)
    \/ \E d \in deletes : ServerDelete(d)
    \/ \E d \in deletes : DeleteSucceeded(d)
    \/ \E d \in deletes : DeleteFailed(d)
    \/ NotificationTimeout

\* exactly-once, in-order delivery of change events
Spec == Init /\ [][Next]_vars

\* at-least-once delivery: an event may reach the handler more than once
NextDup == Next \/ RedeliverEvent

SpecDup == Init /\ [][NextDup]_vars

\* the Remove button may be clicked again while the delete of its id is pending
NextRepeat == Next \/ \E i \in Ids : RepeatDelete(i)

SpecRepeat == Init /\ [][NextRepeat]_vars

\* handleDeleteProduct may be called with an id that is not in products
NextStale == Next \/ \E i \in Ids : StaleDelete(i)

SpecStale == Init /\ [][NextStale]_vars

\* the channel may report an error and join again, and the component may unmount
NextChannel == Next \/ SubscriptionError \/ ChannelRejoin \/ Unmount

SpecChannel == Init /\ [][NextChannel]_vars

\* rows of every images shape, entering products through the load and
\* through INSERT and UPDATE events
NextImages ==
    \/ \E t \in Times, raw \in AllRawImages : StoreInsert(t, raw)
    \/ \E i \in Ids, raw \in AllRawImages : StoreUpdate(i, raw)
    \/ Mount
    \/ \E l \in loads : ServerQuery(l)
    \/ \E l \in loads : FetchComplete(l)
    \/ DeliverEvent

SpecImages == Init /\ [][NextImages]_vars

\* the publish form of the seller dashboard: its fields, image uploads that
\* overlap, and the publish request, next to the mount load and the channel
NextForm ==
    \/ Mount
    \/ \E l \in loads : ServerQuery(l)
    \/ \E l \in loads : FetchComplete(l)
    \/ DeliverEvent
    \/ \E field \in {"name", "price", "description"}, v \in FormTexts : EditForm(field, v)
    \/ \E fs \in FileLists : HandleImageUpload(fs)
    \/ \E u \in uploads : \E ok \in SUBSET (1..Len(u.files)) : UploadDone(u, ok)
    \/ \E index \in 1..(MaxImages + 1) : RemoveImage(index)
    \/ \E t \in Times : HandlePublishProduct(t)
    \/ \E p \in publishes : ServerPublish(p)
    \/ \E p \in publishes : PublishSucceeded(p)
    \/ \E p \in publishes : PublishFailed(p)
    \/ NotificationTimeout

SpecForm == Init /\ [][NextForm]_vars

\* the dashboard of a seller and the dashboard of a buyer of the same name,
\* restored from localStorage
InitOwner ==
    /\ InitData
    /\ view \in Dashboards
    /\ user = User(<<"e">>, DefaultSeller, IF view = "SELLER_DASHBOARD" THEN "SELLER" ELSE "BUYER", TRUE)

\* listings of two sellers, and the delete and its rollback
NextOwner ==
    \/ \E who \in Sellers, t \in Times : StoreInsertBy(who, t, ScalarImage("a"))
    \/ Mount
    \/ HandleRetry
    \/ \E l \in loads : ServerQuery(l)
    \/ \E l \in loads : FetchComplete(l)
    \/ DeliverEvent
    \/ \E i \in Ids : HandleDeleteProduct(i)
    \/ \E d \in deletes : ServerDelete(d)
    \/ \E d \in deletes : DeleteSucceeded(d)
    \/ \E d \in deletes : DeleteFailed(d)
    \/ NotificationTimeout

SpecOwner == InitOwner /\ [][NextOwner]_vars

\* the entry views: login, role selection, buyer setup, seller form, logout,
\* from the default initial state, next to the mount load
NextAuth ==
    \/ Mount
    \/ \E l \in loads : ServerQuery(l)
    \/ \E l \in loads : FetchComplete(l)
    \/ \E v \in Emails : SetLoginEmail(v)
    \/ \E v \in Passwords : SetLoginPassword(v)
    \/ \E v \in Usernames : SetBuyerUsername(v)
    \/ \E v \in Keys : SetAdminKeyInput(v)
    \/ \E v \in Usernames : SetSellerUsername(v)
    \/ HandleLogin
    \/ \E role \in {"BUYER", "SELLER"} : HandleRoleSelect(role)
    \/ HandleBuyerSetup
    \/ HandleSellerAuth
    \/ Back
    \/ HandleLogout

SpecAuth == InitAuth /\ [][NextAuth]_vars

\* the carousels of the cards, while rows are inserted and their images
\* change
NextCarousel ==
    \/ \E t \in Times, raw \in RawImages : StoreInsert(t, raw)
    \/ \E i \in Ids, raw \in RawImages : StoreUpdate(i, raw)
    \/ Mount
    \/ \E l \in loads : ServerQuery(l)
    \/ \E l \in loads : FetchComplete(l)
    \/ DeliverEvent
    \/ \E i \in Ids : NextImage(i)
    \/ \E i \in Ids : PrevImage(i)

SpecCarousel == Init /\ [][NextCarousel]_vars

\* the lists of up to MaxShown entries, of ids 1, 2, ..., with every name
\* and description
Catalogs ==
    UNION { { s \in [1..n -> { Card(i, nm, d) : i \in 1..n, nm \in Strings, d \in Strings }] :
                \A k \in 1..n : s[k].id = k } : n \in 0..MaxShown }

\* the dashboard showing a loaded list, the search box empty (the table,
\* which the filter does not read, is left empty)
InitFilter ==
    /\ store = {}
    /\ nextId = 1
    /\ nEvents = 0
    /\ channel = "joined"
    /\ events = <<>>
    /\ dups = 0
    /\ products \in Catalogs
    /\ lastEv = NoEvent
    /\ loading = FALSE
    /\ fetchError = Null
    /\ loads = {}
    /\ nLoads = 1
    /\ newestOk = 1
    /\ deletes = {}
    /\ nDeletes = 0
    /\ notification = Null
    /\ mounted = "yes"
    /\ searchTerm = <<>>
    /\ received = <<>>
    /\ base = products
    /\ view = "BUYER_DASHBOARD"
    /\ user = User(<<"e">>, <<"b">>, "BUYER", TRUE)
    /\ authError = Null
    /\ loginEmail = <<>>
    /\ loginPassword = <<>>
    /\ buyerUsername = <<"b">>
    /\ adminKeyInput = <<>>
    /\ sellerUsername = <<>>
    /\ newProduct = EmptyForm
    /\ uploading = FALSE
    /\ uploads = {}
    /\ nUploads = 0
    /\ publishes = {}
    /\ nPublishes = 0
    /\ cardIndex = [i \in IdSet(products) |-> 0]

NextFilter == \E q \in Strings : SetSearchTerm(q)

SpecFilter == InitFilter /\ [][NextFilter]_vars

----------------------------------------------------------------------------
(* Properties *)

HasDuplicateId(ps) ==
    \E i, j \in 1..Len(ps) : i # j /\ ps[i].id = ps[j].id

\* C1 (Uniqueness): in every reachable state, after any interleaving of load
\* completions, Inserted/Updated/Deleted events and optimistic deletes, no two
\* entries of products have the same id.
C1_Uniqueness == ~HasDuplicateId(products)

\* the step in which the await of the in-flight call l resumes
Completes(l) == l \in loads /\ l.phase # "sent" /\ loads' = loads \ {l}

\* C2 (Stale-load discard): when the response of a fetchProducts call arrives
\* after a later call has already completed with data, it is discarded: the
\* step leaves products as the newer load wrote it.
C2_StaleLoadDiscard ==
    [][\A l \in loads :
          (Completes(l) /\ l.phase = "data" /\ l.gen < newestOk)
              => products' = products]_vars

\* a handleDeleteProduct call that starts in this step (its request is sent)
Starts(d) == d \in deletes' /\ d \notin deletes /\ d.phase = "sent"

\* the step in which the await of the in-flight delete d resumes
Resolves(d) == d \in deletes /\ d.phase # "sent" /\ deletes' = deletes \ {d}

\* qs is ps with the entries of id i taken out: every other entry is kept,
\* in its place in the order
RemovedOnly(ps, qs, i) ==
    LET kept == { k \in 1..Len(ps) : ps[k].id # i }
        pos(k) == Cardinality({ j \in kept : j <= k })
    IN  /\ Len(qs) = Cardinality(kept)
        /\ \A k \in kept : qs[pos(k)] = ps[k]

\* C3 (Optimistic delete, success path): the step that starts
\* handleDeleteProduct(id) takes the entries of that id out of products while
\* the remote delete is still pending, keeping every other entry and the
\* order; the step in which the remote delete resolves without error shows
\* the success notification and leaves products as it is.
C3_OptimisticDeleteSuccess ==
    [][/\ \A d \in deletes' : Starts(d) => RemovedOnly(products, products', d.id)
       /\ \A d \in deletes :
            (Resolves(d) /\ d.phase = "ok")
                => (notification' = "success" /\ products' = products)]_vars

\* a delete has succeeded (its row is gone from the table), the entry is not
\* in products, another entry still is, and the success notification is shown
C3_Witness ==
    /\ notification = "success"
    /\ deletes = {}
    /\ products # <<>>
    /\ \E i \in 1..(nextId - 1) : i \notin StoreIds /\ i \notin IdSet(products)

\* C4 (Optimistic delete, rollback path): the step in which the remote delete
\* of id resolves with an error shows the failure notification and starts a
\* fetchProducts call; when that call completes with data while the table
\* still holds the row, products is its snapshot and holds the entry again.
C4_OptimisticDeleteRollback ==
    [][/\ \A d \in deletes :
            (Resolves(d) /\ d.phase = "error")
                => /\ notification' = "error"
                   /\ \E l \in loads' \ loads :
                        l.phase = "sent" /\ l.cause = "rollback" /\ l.target = d.id
       /\ \A l \in loads :
            (Completes(l) /\ l.phase = "data" /\ l.cause = "rollback"
                          /\ l.target \in StoreIds)
                => /\ l.target \in IdSet(products')
                   /\ products' = SafeData(l.data)]_vars

\* the second fetchProducts call was started by a failed delete (the only
\* source of an error notification) and has completed with data: the one
\* entry ever deleted locally is back, products holds every row of the table
C4_Witness ==
    /\ notification = "error"
    /\ nDeletes = 1 /\ deletes = {}
    /\ nLoads = 2 /\ loads = {} /\ newestOk = 2
    /\ StoreIds = 1..(nextId - 1)
    /\ products # <<>>
    /\ IdSet(products) = StoreIds

\* C5 (No stale or lost entries): once every fetchProducts call has completed
\* (the latest with data, none after a local delete) and every event has been
\* delivered, the ids of products are the ids of the table's rows.
C5_NoStaleOrLostEntries ==
    ( /\ channel = "joined"
      /\ loads = {} /\ nLoads >= 1 /\ newestOk = nLoads
      /\ events = <<>>
      /\ nDeletes = 0 )
        => IdSet(products) = StoreIds

\* C6 (Load failure keeps last known good data): the step in which a
\* fetchProducts call completes with an error sets fetchError to the reason
\* and loading to false, and leaves products as it was.
C6_LoadFailureKeepsData ==
    [][\A l \in loads :
          (Completes(l) /\ l.phase = "error")
              => /\ fetchError' = ErrMsg
                 /\ fetchError' # Null
                 /\ loading' = FALSE
                 /\ products' = products]_vars

\* a load has failed after an earlier one filled products (no event was ever
\* emitted, so the entries come from a load): the entries are still there
C6_Witness ==
    /\ fetchError = ErrMsg
    /\ ~loading /\ loads = {}
    /\ nEvents = 0
    /\ products # <<>>

\* C7 (Load success replaces wholesale): the step in which a fetchProducts
\* call completes with data sets products to the snapshot (same rows, same
\* order, images normalized), whatever it held, and leaves loading false and
\* fetchError null.
C7_LoadSuccessReplaces ==
    [][\A l \in loads :
          (Completes(l) /\ l.phase = "data")
              => /\ Len(products') = Len(l.data)
                 /\ \A k \in 1..Len(l.data) :
                      /\ products'[k].id = l.data[k].id
                      /\ products'[k].created_at = l.data[k].created_at
                      /\ products'[k].images = NormalizeImages(l.data[k].images)
                 /\ loading' = FALSE
                 /\ fetchError' = Null]_vars

\* the event that is delivered next, if any
NextEvent == IF events = <<>> THEN {} ELSE { Head(events) }

\* the step in which event ev reaches the handler (delivered, or delivered
\* and kept for a second delivery)
Delivers(ev) ==
    /\ channel = "joined"
    /\ events # <<>>
    /\ ev = Head(events)
    /\ \/ events' = Tail(events)
       \/ dups' = dups + 1

\* C8 (Idempotent delete event): a DELETE event whose id is not in products
\* leaves products unchanged, and a DELETE event applied a second time in a
\* row leaves products as the first application left it.
C8_IdempotentDeleteEvent ==
    [][\A i \in Ids :
          Delivers(DeleteEvent(i))
              => /\ i \notin IdSet(products) => products' = products
                 /\ lastEv = DeleteEvent(i) => products' = products]_vars

\* a DELETE event has been applied once, nothing else has written products
\* since, and the same event is about to be applied again; an entry remains
C8_Witness ==
    /\ events # <<>>
    /\ lastEv = Head(events)
    /\ lastEv.type = "DELETE"
    /\ products # <<>>

\* C9 (Updated event): an UPDATE event puts the carried record (images
\* normalized) in the place of every entry of its id, keeps the length and
\* every other entry, and changes nothing when no entry has that id.
C9_UpdatedEvent ==
    [][\A ev \in NextEvent :
          (Delivers(ev) /\ ev.type = "UPDATE")
              => /\ Len(products') = Len(products)
                 /\ \A k \in 1..Len(products) :
                      IF products[k].id = ev.new.id
                      THEN /\ products'[k].id = ev.new.id
                           /\ products'[k].created_at = ev.new.created_at
                           /\ products'[k].images = NormalizeImages(ev.new.images)
                      ELSE products'[k] = products[k]
                 /\ ev.new.id \notin IdSet(products) => products' = products]_vars

\* an UPDATE event was applied last: its record sits behind another entry,
\* in the place of the entry it replaced
C9_Witness ==
    /\ lastEv.type = "UPDATE"
    /\ Len(products) >= 2
    /\ products[1].id # lastEv.new.id
    /\ products[2] = Sanitize(lastEv.new)

\* C10 (Insert ordering): an INSERT event for an id that is not in products
\* puts the carried record at the front and keeps the previous entries, in
\* their order, behind it, whatever its created_at.
C10_InsertOrdering ==
    [][\A ev \in NextEvent :
          (Delivers(ev) /\ ev.type = "INSERT" /\ ev.new.id \notin IdSet(products))
              => /\ Len(products') = Len(products) + 1
                 /\ products'[1].id = ev.new.id
                 /\ products'[1].created_at = ev.new.created_at
                 /\ products'[1].images = NormalizeImages(ev.new.images)
                 /\ \A k \in 1..Len(products) : products'[k + 1] = products[k]]_vars

\* an INSERT event for a new id was applied last: its record is at the front,
\* ahead of an entry with a later created_at
C10_Witness ==
    /\ lastEv.type = "INSERT"
    /\ Len(products) >= 2
    /\ ~HasDuplicateId(products)
    /\ products[1].id = lastEv.new.id
    /\ products[1].created_at < products[2].created_at

\* C11 (Idempotent application): an event that reaches the handler a second
\* time, right after it was applied and with no other write to products in
\* between, leaves products as the first application made it; this for every
\* event type, INSERT and UPDATE included.
C11_IdempotentApplication ==
    [][\A ev \in NextEvent :
          (Delivers(ev) /\ lastEv = ev) => products' = products]_vars

\* C12 (Single in-flight delete per id): no two delete requests for the same
\* id are pending at the same time.
C12_SingleInFlightDelete ==
    \A d1, d2 \in deletes : d1.id = d2.id => d1 = d2

\* C13 (Precondition violation is a no-op): a call of handleDeleteProduct
\* with an id that no entry of products has changes no state: in particular
\* no step sends a delete request for an id that is not in products.
C13_PreconditionViolationNoOp ==
    [][\A d \in deletes' : Starts(d) => d.id \in IdSet(products)]_vars

\* the fetchProducts calls made in a step
LoadsStarted == nLoads' - nLoads

\* C14 (No transparent retry): a step in which a fetchProducts call completes
\* starts no fetchProducts call, and neither does a step in which the channel
\* reports an error; a step in which a delete request resolves starts exactly
\* one if the request failed and none if it succeeded; every other step that
\* starts a call starts one, and is the mount or a click on Retry (which is
\* shown while fetchError is set).
C14_NoTransparentRetry ==
    [][/\ (\E l \in loads : Completes(l)) => LoadsStarted = 0
       /\ (channel = "joined" /\ channel' = "errored") => LoadsStarted = 0
       /\ \A d \in deletes :
            Resolves(d) => LoadsStarted = (IF d.phase = "error" THEN 1 ELSE 0)
       /\ (LoadsStarted # 0 /\ deletes' = deletes)
            => /\ LoadsStarted = 1
               /\ \/ mounted = "no" /\ mounted' = "yes"
                  \/ mounted = "yes" /\ mounted' = "yes" /\ fetchError # Null]_vars

\* the one reload of a failed delete has failed too and nothing has retried
\* it; the channel has reported an error; two calls were made in all
C14_Witness ==
    /\ channel = "errored"
    /\ nDeletes = 1
    /\ nLoads = 2
    /\ loads = {}
    /\ deletes = {}
    /\ fetchError # Null
    /\ notification = "error"

\* C17 (Subscription errors preserve the view): the step in which the channel
\* reports CHANNEL_ERROR leaves products, loading and fetchError as they were.
C17_SubscriptionErrorPreservesView ==
    [][(channel = "joined" /\ channel' = "errored")
          => /\ products' = products
             /\ loading' = loading
             /\ fetchError' = fetchError]_vars

\* the channel has reported an error while the list showed an entry
C17_Witness ==
    /\ channel = "errored"
    /\ products # <<>>
    /\ ~loading
    /\ fetchError = Null

\* C18 (Subscription lifecycle): the component holds one channel, which is
\* created and joined in the mount step and in no other step; the cleanup
\* step removes it, a removed channel is never joined again, and once the
\* component is gone no step changes products.
C18_SubscriptionLifecycle ==
    [][/\ (channel = "none" /\ channel' # "none")
            => (mounted = "no" /\ mounted' = "yes" /\ channel' = "joined")
       /\ channel # "none" => channel' # "none"
       /\ mounted' = "yes" => channel' \in {"joined", "errored"}
       /\ mounted' = "gone" => channel' = "removed"
       /\ channel = "removed" => channel' = "removed"
       /\ mounted = "gone" => products' = products]_vars

\* the component is gone and its channel removed; the table has lost a row
\* that the list, untouched since, still shows
C18_Witness ==
    /\ mounted = "gone"
    /\ channel = "removed"
    /\ products # <<>>
    /\ \E k \in 1..Len(products) : products[k].id \notin StoreIds

\* status as the presentation derives it: the spinner while loading, else the
\* error banner while fetchError is set, else the list
Status ==
    IF loading THEN "Loading"
    ELSE IF fetchError # Null THEN "Errored"
    ELSE "Ready"

\* the transitions of the three-state machine
StatusMoves ==
    { <<"Loading", "Ready">>, <<"Loading", "Errored">>,
      <<"Ready", "Loading">>, <<"Errored", "Loading">> }

\* C15 (Status state machine): the mount step, which makes the first
\* fetchProducts call, starts status as Loading; a step that changes status
\* moves it along Loading -> Ready, Loading -> Errored, Ready -> Loading or
\* Errored -> Loading, so that Ready and Errored are reached from Loading
\* only; and a step that makes a fetchProducts call leaves it Loading.
C15_StatusStateMachine ==
    [][/\ (mounted = "no" /\ mounted' = "yes") => Status' = "Loading"
       /\ Status' # Status => <<Status, Status'>> \in StatusMoves
       /\ nLoads' # nLoads => Status' = "Loading"]_vars

\* the events evs applied one after the other, oldest first
RECURSIVE ApplyAll(_, _)
ApplyAll(prev, evs) ==
    IF evs = <<>> THEN prev
    ELSE ApplyAll(ApplyEvent(prev, Head(evs)), Tail(evs))

\* C16 (Receipt-order application): products is what the last write other
\* than an event (a load completing with data, an optimistic removal) left,
\* with every event received since applied to it once, in the order received;
\* this also while a load is outstanding.
C16_ReceiptOrderApplication ==
    products = ApplyAll(base, received)

\* two events, an INSERT and then an UPDATE of the same row, have been
\* received and applied while the mount load is still outstanding
C16_Witness ==
    /\ loading
    /\ loads # {}
    /\ Len(received) = 2
    /\ received[1].type = "INSERT"
    /\ received[2].type = "UPDATE"
    /\ received[2].new.id = received[1].new.id
    /\ products = <<Sanitize(received[2].new)>>

\* the stored images the claim states for a raw images value
ClaimedImages(raw) ==
    CASE raw.kind \in {"null", "absent"} -> <<>>
      [] raw.kind = "string" -> <<raw.val[1]>>
      [] raw.kind = "array" -> raw.val

\* the same, with the empty string treated as null
ClaimedImagesNonEmpty(raw) ==
    IF raw.kind = "string" /\ raw.val[1] = "" THEN <<>> ELSE ClaimedImages(raw)

\* every record that enters products in this step, through a load completing
\* with data, an INSERT event or an UPDATE event, is stored with the images
\* that Rule gives for its raw images value
StoredBy(Rule(_)) ==
    /\ \A l \in loads :
         (Completes(l) /\ l.phase = "data")
             => /\ Len(products') = Len(l.data)
                /\ \A k \in 1..Len(l.data) :
                     products'[k].images = Rule(l.data[k].images)
    /\ \A ev \in NextEvent :
         (Delivers(ev) /\ ev.type = "INSERT")
             => products'[1].images = Rule(ev.new.images)
    /\ \A ev \in NextEvent :
         (Delivers(ev) /\ ev.type = "UPDATE")
             => \A k \in 1..Len(products) :
                  products[k].id = ev.new.id
                      => products'[k].images = Rule(ev.new.images)

\* C19 (Image normalization): a record entering products through a load, an
\* INSERT event or an UPDATE event is stored with images a sequence: empty
\* for null or absent, the one-element sequence holding it for a scalar
\* string, the array itself for an array; the same on the three paths.
C19_ImageNormalization ==
    [][StoredBy(ClaimedImages)]_vars

\* C19, amended: as C19, for a non-empty scalar string; the empty string is
\* stored as the empty sequence, like null.
C19_ImageNormalizationNonEmpty ==
    [][StoredBy(ClaimedImagesNonEmpty)]_vars

\* an INSERT event carrying the empty string as images was applied last: the
\* entry at the front has no images; a loaded or updated entry behind it has
\* the one image of its scalar string
C19_Witness ==
    /\ lastEv.type = "INSERT"
    /\ lastEv.new.images = ScalarImage("")
    /\ Len(products) = 2
    /\ products[1].id = lastEv.new.id
    /\ products[1].images = <<>>
    /\ products[2].images = <<"a">>
    /\ \E r \in store : r.id = products[2].id /\ r.images = ScalarImage("a")

\* two characters that are the same letter, case ignored
SameLetter(c, d) == c = d \/ {c, d} = {"a", "A"}

\* q occurs in s, case ignored
ContainsIgnoringCase(s, q) ==
    \E o \in 0..(Len(s) - Len(q)) :
        \A j \in 1..Len(q) : SameLetter(s[o + j], q[j])

\* positions of the entries of ps whose name or description contains q
Hits(ps, q) ==
    { k \in 1..Len(ps) :
        \/ ContainsIgnoringCase(ps[k].name, q)
        \/ ContainsIgnoringCase(ps[k].description, q) }

\* v is the subsequence of ps at the positions of hits, in the order of ps
IsSubsequenceAt(v, ps, hits) ==
    /\ Len(v) = Cardinality(hits)
    /\ \A k \in hits : v[Cardinality({ m \in hits : m <= k })] = ps[k]

C21_ImageLimit ==
    /\ Len(newProduct.images) <= MaxImages
    /\ \A r \in store : Len(NormalizeImages(r.images)) <= MaxImages

\* a step of a handlePublishProduct call: it starts, the table answers its
\* insert, or its await resumes
PublishStep ==
    nPublishes' # nPublishes \/ publishes' # publishes \/ uploading' # uploading

\* C22 (Publish does not touch the collection): no step of a
\* handlePublishProduct call, on success or on failure, adds to or changes
\* products; a step that brings a new id into products is the delivery of an
\* INSERT event or the completion of a load with data.
C22_PublishLeavesCollection ==
    [][/\ PublishStep => products' = products
       /\ IdSet(products') \ IdSet(products) # {} =>
              \/ \E ev \in NextEvent : Delivers(ev) /\ ev.type = "INSERT"
              \/ \E l \in loads : Completes(l) /\ l.phase = "data"]_vars

\* a publish has succeeded and its row has reached the list
C22_Witness ==
    /\ nPublishes > 0
    /\ publishes = {}
    /\ notification = "success"
    /\ \E k \in 1..Len(products) : products[k].seller_username = user.username

\* the step in which the await of the in-flight publish p resumes
ResolvesPublish(p) ==
    p \in publishes /\ p.phase # "sent" /\ publishes' = publishes \ {p}

\* C29 (Publish outcome handling): handlePublishProduct sends an insert only
\* when the form has at least one image; the step that sends it sends exactly
\* one, of the form as it is, and sets uploading; the step in which the insert
\* resolves without error resets the form to empty, the step in which it
\* resolves with an error leaves the form (name, price, description, images)
\* as it is, and both end with uploading false.
C29_PublishOutcome ==
    [][/\ nPublishes' # nPublishes =>
              /\ Len(newProduct.images) > 0
              /\ nPublishes' = nPublishes + 1
              /\ Cardinality(publishes' \ publishes) = 1
              /\ \A p \in publishes' \ publishes :
                     p.phase = "sent" /\ p.form = newProduct
              /\ newProduct' = newProduct
       /\ \A p \in publishes :
              /\ (ResolvesPublish(p) /\ p.phase = "ok") =>
                     newProduct' = EmptyForm /\ uploading' = FALSE
              /\ (ResolvesPublish(p) /\ p.phase = "error") =>
                     newProduct' = newProduct /\ uploading' = FALSE]_vars

\* a publish has failed and the form still holds what was entered
C29_Witness ==
    /\ nPublishes > 0
    /\ publishes = {}
    /\ notification = "error"
    /\ newProduct.images # <<>>
    /\ newProduct.name # <<>>
    /\ ~uploading

\* C23 (Ownership gate on delete): a step that starts a delete of a product
\* is taken in the seller dashboard view, and an entry of products with that
\* id has seller_username equal to the current user's username; in the buyer
\* view and for the listings of other sellers no delete starts.
C23_OwnershipGate ==
    [][\A d \in deletes' :
          Starts(d) =>
              /\ view = "SELLER_DASHBOARD"
              /\ \E k \in 1..Len(products) :
                     /\ products[k].id = d.id
                     /\ products[k].seller_username = user.username]_vars

\* the seller has started a delete while the listing of another seller is
\* on screen
C23_Witness ==
    /\ nDeletes > 0
    /\ view = "SELLER_DASHBOARD"
    /\ \E k \in 1..Len(products) : products[k].seller_username # user.username

\* C24 (Error signal reflects the latest load): whenever no load is
\* outstanding, fetchError is non-null if and only if the most recently
\* started load failed (it is not the latest load that completed with data).
C24_ErrorReflectsLatestLoad ==
    (loads = {} /\ nLoads > 0) => (fetchError # Null <=> newestOk # nLoads)

\* C25 (Loading flag tracks outstanding loads): in every reachable state
\* loading is true when at least one load is outstanding and false when none
\* is.
C25_LoadingTracksLoads == loading <=> loads # {}

\* a username that is set and not blank
NonBlank(n) == n # Undefined /\ Trim(n) # <<>>

\* C26 (View/role invariant): in every state reachable from the default
\* initial state through handleLogin, handleRoleSelect, handleBuyerSetup,
\* handleSellerAuth, the Back buttons and handleLogout, a view other than
\* AUTH implies an authenticated user, BUYER_DASHBOARD implies role BUYER
\* with a non-blank username, and SELLER_DASHBOARD implies role SELLER with a
\* non-blank username; the step that leaves a view for AUTH (handleLogout)
\* leaves the user unauthenticated.
C26_ViewRoleInvariant ==
    /\ [](/\ view # "AUTH" => user.isAuthenticated
          /\ view = "BUYER_DASHBOARD" =>
                 user.role = "BUYER" /\ NonBlank(user.username)
          /\ view = "SELLER_DASHBOARD" =>
                 user.role = "SELLER" /\ NonBlank(user.username))
    /\ [][(view # "AUTH" /\ view' = "AUTH") => user' = NoUser]_vars

\* the buyer dashboard, entered with a username that has a trailing space
C26_Witness ==
    /\ view = "BUYER_DASHBOARD"
    /\ user.username = <<"b", " ">>

\* C27 (Seller gate): a step enters SELLER_DASHBOARD, or gives the user the
\* role SELLER, only from the seller form with the entered key equal to
\* ADMIN_KEY and a non-blank seller username; a step that sets authError is a
\* submission of the seller form without that, and leaves the view and the
\* user unchanged.
C27_SellerGate ==
    [][/\ ((view # "SELLER_DASHBOARD" /\ view' = "SELLER_DASHBOARD")
              \/ (user.role # "SELLER" /\ user'.role = "SELLER")) =>
              /\ view = "SELLER_AUTH"
              /\ adminKeyInput = ADMIN_KEY
              /\ NonBlank(sellerUsername)
              /\ view' = "SELLER_DASHBOARD"
              /\ user'.role = "SELLER"
              /\ user'.username = sellerUsername
       /\ (authError = Null /\ authError' # Null) =>
              /\ view = "SELLER_AUTH"
              /\ ~(adminKeyInput = ADMIN_KEY /\ NonBlank(sellerUsername))
              /\ view' = view
              /\ user' = user]_vars

\* the seller form was submitted with the right key and a blank username,
\* and was rejected
C27_Witness ==
    /\ view = "SELLER_AUTH"
    /\ authError # Null
    /\ adminKeyInput = ADMIN_KEY
    /\ sellerUsername = <<" ">>
    /\ user.role = Undefined

\* C28 (Carousel index in bounds): for every product card on screen whose
\* product has at least one image, currentImageIndex is within
\* 0..images.length-1, after any sequence of nextImage/prevImage clicks and
\* of Updated events or loads that change the product's image list.
C28_CarouselIndexInBounds ==
    \A i \in DOMAIN cardIndex :
        Len(CardImages(i)) >= 1 => cardIndex[i] \in 0..(Len(CardImages(i)) - 1)

====
